---- MODULE Spec2Model ----
(***************************************************************************)
(* Frame analysis of the thumbnail generator: the YOLO frame analysis      *)
(* service (yolo_service.py: startup, /health, /analyze, /analyze_batch)   *)
(* and the command-line frame analyzer (yolo_analyzer.py: main).           *)
(*                                                                         *)
(* Scores are Python floats in the source.  Here a score s is the integer  *)
(* s * Scale (fixed point, four decimal digits); every product is scaled   *)
(* back with integer division, every square root is the integer root.      *)
(***************************************************************************)
EXTENDS Integers, Sequences, FiniteSets, TLC

VARIABLES files, startup, yolo_service, last

vars == <<files, startup, yolo_service, last>>

(***************************************************************************)
(* Bounds of the model.                                                    *)
(***************************************************************************)
MaxBatch == 3
MaxDetections == 2
MaxFrameIndex == 1
GridW == 3
GridH == 2
MaxRecords == 3
MaxSizes == 3
MaxTags == 2

(***************************************************************************)
(* Fixed point.                                                            *)
(***************************************************************************)
Scale == 100 * 100

Min(a, b) == IF a <= b THEN a ELSE b
Max(a, b) == IF a >= b THEN a ELSE b

RECURSIVE SqrtSearch(_, _, _)
SqrtSearch(x, lo, hi) ==
    IF lo >= hi THEN lo
    ELSE LET mid == (lo + hi + 1) \div 2
         IN  IF mid * mid <= x THEN SqrtSearch(x, mid, hi)
             ELSE SqrtSearch(x, lo, mid - 1)

\* floor(sqrt(x)) for 0 <= x < 2^30
ISqrt(x) == SqrtSearch(x, 0, 32767)

RECURSIVE SumFn(_, _)
SumFn(f, S) ==
    IF S = {} THEN 0
    ELSE LET x == CHOOSE y \in S : TRUE
         IN  f[x] + SumFn(f, S \ {x})

SeqsUpTo(S, n) == UNION {[1..k -> S] : k \in 0..n}

(***************************************************************************)
(* Images.  cv2.imread gives a BGR pixel grid or None; the detections the  *)
(* network reports for an image are carried by the image (field scene),    *)
(* so that a deterministic detector is a function of the image.            *)
(***************************************************************************)
NoImage == [none |-> TRUE]

Image(px, scene) == [h |-> Len(px), w |-> Len(px[1]), px |-> px, scene |-> scene]

Positions(image) == (1..image.h) \X (1..image.w)

\* cv2.cvtColor(image, cv2.COLOR_BGR2GRAY) on 8-bit pixels <<b, g, r>>
COLOR_BGR2GRAY(bgr) ==
    (3735 * bgr[1] + 19235 * bgr[2] + 9798 * bgr[3] + 16384) \div 32768

cvtColor(image) ==
    [p \in Positions(image) |-> COLOR_BGR2GRAY(image.px[p[1]][p[2]])]

\* cv2.BORDER_REFLECT_101, the default border of cv2.Laplacian
Reflect101(i, n) ==
    IF n = 1 THEN 1
    ELSE IF i < 1 THEN 2 - i
    ELSE IF i > n THEN 2 * n - i
    ELSE i

\* a variant with a border of zeros (cv2.BORDER_CONSTANT) around the image
Laplacian_zero_border(image, gray) ==
    LET at(i, j) == IF i < 1 \/ i > image.h \/ j < 1 \/ j > image.w THEN 0
                    ELSE gray[<<i, j>>]
    IN  [p \in Positions(image) |->
            at(p[1] - 1, p[2]) + at(p[1] + 1, p[2])
          + at(p[1], p[2] - 1) + at(p[1], p[2] + 1) - 4 * gray[p]]

\* cv2.Laplacian(gray, cv2.CV_64F): kernel [0 1 0; 1 -4 1; 0 1 0]
Laplacian(image, gray) ==
    [p \in Positions(image) |->
        gray[<<Reflect101(p[1] - 1, image.h), p[2]>>]
      + gray[<<Reflect101(p[1] + 1, image.h), p[2]>>]
      + gray[<<p[1], Reflect101(p[2] - 1, image.w)>>]
      + gray[<<p[1], Reflect101(p[2] + 1, image.w)>>]
      - 4 * gray[p]]

RECURSIVE Moments(_, _)
\* <<sum, sum of squares>> of the values of f over the set S, in one pass
Moments(f, S) ==
    IF S = {} THEN <<0, 0>>
    ELSE LET x    == CHOOSE y \in S : TRUE
             v    == f[x]
             rest == Moments(f, S \ {x})
         IN  <<rest[1] + v, rest[2] + v * v>>

\* n^2 * variance of the values of f (numpy .var() is the population variance)
VarTimesN2(f) ==
    LET n == Cardinality(DOMAIN f)
        m == Moments(f, DOMAIN f)
    IN  n * m[2] - m[1] * m[1]

\* a variant without the clamp: variance / 1000.0, scaled
NormalizedLaplacianVar_unclamped(image) ==
    LET gray == cvtColor(image)
        n    == Cardinality(DOMAIN gray)
        v    == VarTimesN2(Laplacian(image, gray))
    IN  (v \div (n * n)) * (Scale \div 1000)

\* min(variance / 1000.0, 1.0), scaled
NormalizedLaplacianVar(image) ==
    LET gray == cvtColor(image)
        n    == Cardinality(DOMAIN gray)
        v    == VarTimesN2(Laplacian(image, gray))
    IN  IF v >= 1000 * n * n THEN Scale
        ELSE (v * (Scale \div 1000)) \div (n * n)

(***************************************************************************)
(* YOLOService: quality metrics (yolo_service.py)                          *)
(***************************************************************************)
calculate_blur_score(image) ==
    IF image = NoImage THEN Scale \div 2          \* cvtColor raises: except branch
    ELSE NormalizedLaplacianVar(image)

\* a variant with the band and slopes of the analyzer's brightness score
calculate_brightness_score_variant_a(image) ==
    IF image = NoImage THEN Scale \div 2
    ELSE LET gray == cvtColor(image)
             n    == Cardinality(DOMAIN gray)
             s    == SumFn(gray, DOMAIN gray)
             brightness_score ==
                 IF 10 * s < 2 * 255 * n THEN (25 * s * Scale) \div (10 * 255 * n)
                 ELSE IF 10 * s > 8 * 255 * n
                      THEN (5 * (255 * n - s) * Scale) \div (255 * n)
                      ELSE Scale
         IN  Max(0, Min(Scale, brightness_score))

calculate_brightness_score(image) ==
    IF image = NoImage THEN Scale \div 2          \* cvtColor raises: except branch
    ELSE LET gray == cvtColor(image)
             n    == Cardinality(DOMAIN gray)
             s    == SumFn(gray, DOMAIN gray)     \* mean_brightness = s / (255 n)
             brightness_score ==
                 IF 10 * s >= 3 * 255 * n /\ 10 * s <= 8 * 255 * n THEN Scale
                 ELSE IF 10 * s < 3 * 255 * n
                      THEN (10 * s * Scale) \div (3 * 255 * n)
                      ELSE (5 * (255 * n - s) * Scale) \div (255 * n)
         IN  Max(0, Min(Scale, brightness_score))

(***************************************************************************)
(* FrameAnalyzer: quality metrics and composition (yolo_analyzer.py)       *)
(***************************************************************************)
\* a variant that weighs the stored (inverted) blur score itself
overall_quality_of_uninverted(blur_score_final, brightness_score, contrast_score) ==
    (blur_score_final * 4 + brightness_score * 3 + contrast_score * 3) \div 10

\* the overall quality score, lines 134-139
overall_quality_of(blur_score_final, brightness_score, contrast_score) ==
    ((Scale - blur_score_final) * 4 + brightness_score * 3 + contrast_score * 3) \div 10

\* min(gray.std() / 255.0 * 2, 1.0), lines 130-132
contrast_score_of(image) ==
    LET gray == cvtColor(image)
        n    == Cardinality(DOMAIN gray)
        v    == VarTimesN2(gray)                  \* std = sqrt(v) / n
    IN  Min((ISqrt(v * 100) * ((2 * Scale) \div 10)) \div (255 * n), Scale)

\* a variant with the band and slopes of the service's brightness score
FrameAnalyzer_calculate_quality_metrics_variant_b(image) ==
    LET gray == cvtColor(image)
        n    == Cardinality(DOMAIN gray)
        s    == SumFn(gray, DOMAIN gray)
        normalized_blur  == NormalizedLaplacianVar(image)
        blur_score_final == Scale - normalized_blur
        raw_brightness ==
            IF 10 * s >= 3 * 255 * n /\ 10 * s <= 8 * 255 * n THEN Scale
            ELSE IF 10 * s < 3 * 255 * n
                 THEN (10 * s * Scale) \div (3 * 255 * n)
                 ELSE (5 * (255 * n - s) * Scale) \div (255 * n)
        brightness_score == Max(0, Min(Scale, raw_brightness))
        contrast_score   == contrast_score_of(image)
        overall_quality  ==
            overall_quality_of(blur_score_final, brightness_score, contrast_score)
    IN  [blur_score       |-> blur_score_final,
         brightness_score |-> brightness_score,
         contrast_score   |-> contrast_score,
         overall_quality  |-> overall_quality]

FrameAnalyzer_calculate_quality_metrics(image) ==
    LET gray == cvtColor(image)
        n    == Cardinality(DOMAIN gray)
        s    == SumFn(gray, DOMAIN gray)          \* brightness = s / (255 n)
        normalized_blur  == NormalizedLaplacianVar(image)
        blur_score_final == Scale - normalized_blur
        raw_brightness ==
            IF 10 * s < 2 * 255 * n THEN (25 * s * Scale) \div (10 * 255 * n)
            ELSE IF 10 * s > 8 * 255 * n
                 THEN (5 * (255 * n - s) * Scale) \div (255 * n)
                 ELSE Scale
        brightness_score == Max(0, Min(Scale, raw_brightness))
        contrast_score   == contrast_score_of(image)
        overall_quality  ==
            overall_quality_of(blur_score_final, brightness_score, contrast_score)
    IN  [blur_score       |-> blur_score_final,
         brightness_score |-> brightness_score,
         contrast_score   |-> contrast_score,
         overall_quality  |-> overall_quality]

\* the score of one detection, lines 160-185
obj_score_of(obj) ==
    LET bbox == obj.bbox
        obj_center_x == bbox.x + bbox.width \div 2
        obj_center_y == bbox.y + bbox.height \div 2
        dx == obj_center_x - Scale \div 2
        dy == obj_center_y - Scale \div 2
        distance_from_center == ISqrt(dx * dx + dy * dy)
        center_score == Scale - Min(distance_from_center * 2, Scale)
        obj_area == (bbox.width * bbox.height) \div Scale
        size_score ==
            IF Scale \div 10 <= obj_area /\ obj_area <= (6 * Scale) \div 10 THEN Scale
            ELSE IF obj_area < Scale \div 10 THEN obj_area * 10
            ELSE Max((2 * Scale) \div 10, Scale - (obj_area - (6 * Scale) \div 10) * 2)
    IN  (((center_score * 4 + size_score * 6) \div 10) * obj.confidence) \div Scale

RECURSIVE MaxOver(_, _, _)
\* the running maximum of the loop at lines 159-187, started at init
MaxOver(f, n, init) ==
    IF n = 0 THEN init ELSE Max(MaxOver(f, n - 1, init), f[n])

\* a variant without the final min(composition_score, 1.0)
FrameAnalyzer_calculate_composition_score_unclamped(detected_objects) ==
    IF detected_objects = <<>> THEN (3 * Scale) \div 10
    ELSE LET n == Len(detected_objects)
             composition_score ==
                 MaxOver([i \in 1..n |-> obj_score_of(detected_objects[i])], n, 0)
             max_confidence ==
                 MaxOver([i \in 1..n |-> detected_objects[i].confidence], n, 0)
         IN  IF max_confidence > (8 * Scale) \div 10
             THEN (composition_score * 12) \div 10
             ELSE composition_score

\* a variant that boosts on the confidence of the best-scoring detection only
FrameAnalyzer_calculate_composition_score_best_only(detected_objects) ==
    IF detected_objects = <<>> THEN (3 * Scale) \div 10
    ELSE LET n == Len(detected_objects)
             composition_score ==
                 MaxOver([i \in 1..n |-> obj_score_of(detected_objects[i])], n, 0)
             best == CHOOSE i \in 1..n :
                         \A j \in 1..n : obj_score_of(detected_objects[i])
                                            >= obj_score_of(detected_objects[j])
             boosted ==
                 IF detected_objects[best].confidence > (8 * Scale) \div 10
                 THEN (composition_score * 12) \div 10
                 ELSE composition_score
         IN  Min(boosted, Scale)

FrameAnalyzer_calculate_composition_score(detected_objects) ==
    IF detected_objects = <<>> THEN (3 * Scale) \div 10
    ELSE LET n == Len(detected_objects)
             composition_score ==
                 MaxOver([i \in 1..n |-> obj_score_of(detected_objects[i])], n, 0)
             max_confidence ==
                 MaxOver([i \in 1..n |-> detected_objects[i].confidence], n, 0)
             boosted ==
                 IF max_confidence > (8 * Scale) \div 10
                 THEN (composition_score * 12) \div 10
                 ELSE composition_score
         IN  Min(boosted, Scale)

(***************************************************************************)
(* The detector.  model(image, ...) either raises or returns results, one  *)
(* per image, whose boxes are None or a list of boxes; model.names maps a  *)
(* class id to its label.                                                  *)
(***************************************************************************)
model_names == (39 :> "bottle") @@ (16 :> "dog") @@ (80 :> "shoe") @@ (81 :> "Bottle")

Box(cls, conf, x1, y1, x2, y2) == [cls |-> cls, conf |-> conf, xyxyn |-> <<x1, y1, x2, y2>>]

Raises == [raises |-> TRUE, results |-> <<>>]
Returns(results) == [raises |-> FALSE, results |-> results]
NoBoxes == [boxes_is_none |-> TRUE, boxes |-> <<>>]
Boxes(bs) == [boxes_is_none |-> FALSE, boxes |-> bs]

\* self.model(image, conf=..., verbose=False)
model_call(image) == image.scene

\* box.xyxy: the box in pixels of the image
xyxy(box, image) ==
    <<box.xyxyn[1] * image.w, box.xyxyn[2] * image.h,
      box.xyxyn[3] * image.w, box.xyxyn[4] * image.h>>

RECURSIVE Flatten(_)
Flatten(ss) == IF ss = <<>> THEN <<>> ELSE Head(ss) \o Flatten(Tail(ss))

(***************************************************************************)
(* The file system: files[path] says whether the path exists and what      *)
(* cv2.imread returns for it.                                              *)
(***************************************************************************)
Missing == [exists |-> FALSE, image |-> NoImage]
Corrupt == [exists |-> TRUE, image |-> NoImage]
Frame(image) == [exists |-> TRUE, image |-> image]

os_path_exists(path) == path \in DOMAIN files /\ files[path].exists

imread(path) == IF os_path_exists(path) THEN files[path].image ELSE NoImage

(***************************************************************************)
(* YOLOService (yolo_service.py)                                           *)
(***************************************************************************)
YOLOService_product_classes ==
    {"person", "bicycle", "car", "motorcycle", "airplane", "bus", "train", "truck", "boat",
     "bottle", "wine glass", "cup", "fork", "knife", "spoon", "bowl", "banana", "apple",
     "sandwich", "orange", "broccoli", "carrot", "hot dog", "pizza", "donut", "cake",
     "chair", "couch", "potted plant", "bed", "dining table", "toilet", "tv", "laptop",
     "mouse", "remote", "keyboard", "cell phone", "microwave", "oven", "toaster", "sink",
     "refrigerator", "book", "clock", "vase", "scissors", "teddy bear", "hair drier",
     "toothbrush", "handbag", "tie", "suitcase", "frisbee", "skis", "snowboard",
     "sports ball", "kite", "baseball bat", "baseball glove", "skateboard", "surfboard",
     "tennis racket", "backpack", "umbrella", "shoe"}

NoService == [kind |-> "None"]

\* YOLOService.__init__ followed by a successful load_model
YOLOService(model_path, confidence_threshold) ==
    [kind                 |-> "YOLOService",
     confidence_threshold |-> confidence_threshold,
     model_path           |-> model_path,
     model                |-> [names |-> model_names],
     product_classes      |-> YOLOService_product_classes]

FrameAnalysisResponse(frame_index, timestamp, has_product, quality_score, brightness_score, blur_score, detected_objects) ==
    [frame_index      |-> frame_index,
     timestamp        |-> timestamp,
     has_product      |-> has_product,
     quality_score    |-> quality_score,
     brightness_score |-> brightness_score,
     blur_score       |-> blur_score,
     detected_objects |-> detected_objects]

\* the response built at lines 168-176 and again at lines 230-238
FailedResponse(frame_index, timestamp) ==
    FrameAnalysisResponse(frame_index, timestamp, FALSE, 0, 0, 0, <<>>)

Returned(value) == [raised |-> FALSE, value |-> value]
Raised(error) == [raised |-> TRUE, value |-> [error |-> error]]

\* a variant of the loop in which every box overwrites has_product
YOLOService_has_product_overwritten(self, boxes) ==
    /\ Len(boxes) > 0
    /\ self.model.names[boxes[Len(boxes)].cls] \in self.product_classes

\* the loop at lines 126-136: has_product is set by any box whose label is a product class
YOLOService_has_product(self, boxes) ==
    \E i \in 1..Len(boxes) : self.model.names[boxes[i].cls] \in self.product_classes

\* a variant with the weights of the detection and blur terms exchanged
YOLOService_quality_score_swapped(has_product, blur_score, brightness_score) ==
    LET detection_score == IF has_product THEN Scale ELSE (3 * Scale) \div 10
    IN  (detection_score * 3 + blur_score * 4 + brightness_score * 3) \div 10

\* a variant whose detection term is 0 when no product is detected
YOLOService_quality_score_no_floor(has_product, blur_score, brightness_score) ==
    LET detection_score == IF has_product THEN Scale ELSE 0
    IN  (detection_score * 4 + blur_score * 3 + brightness_score * 3) \div 10

\* the overall quality score, lines 151-153
YOLOService_quality_score(has_product, blur_score, brightness_score) ==
    LET detection_score == IF has_product THEN Scale ELSE (3 * Scale) \div 10
    IN  (detection_score * 4 + blur_score * 3 + brightness_score * 3) \div 10

\* a variant of the try block whose detection term is the best confidence detected
YOLOService_analyze_frame_try_confidence(self, frame_path, frame_index, timestamp) ==
    IF ~os_path_exists(frame_path) THEN Raised("FileNotFoundError")
    ELSE LET image == imread(frame_path) IN
    IF image = NoImage THEN Raised("ValueError")
    ELSE LET results == model_call(image) IN
    IF results.raises THEN Raised("Exception")
    ELSE LET boxes == Flatten([k \in 1..Len(results.results) |->
                                 IF results.results[k].boxes_is_none THEN <<>>
                                 ELSE results.results[k].boxes])
             detected_objects ==
                 [i \in 1..Len(boxes) |->
                     [class_name |-> self.model.names[boxes[i].cls],
                      confidence |-> boxes[i].conf,
                      bbox       |-> xyxy(boxes[i], image)]]
             has_product      == YOLOService_has_product(self, boxes)
             blur_score       == calculate_blur_score(image)
             brightness_score == calculate_brightness_score(image)
             detection_score  ==
                 MaxOver([i \in 1..Len(boxes) |-> boxes[i].conf], Len(boxes), 0)
             quality_score    ==
                 (Min(detection_score, Scale) * 4 + blur_score * 3
                    + brightness_score * 3) \div 10
         IN  Returned(FrameAnalysisResponse(frame_index, timestamp, has_product,
                 quality_score, brightness_score, blur_score, detected_objects))

\* the try block of YOLOService.analyze_frame, lines 110-163
YOLOService_analyze_frame_try(self, frame_path, frame_index, timestamp) ==
    IF ~os_path_exists(frame_path) THEN Raised("FileNotFoundError")
    ELSE LET image == imread(frame_path) IN
    IF image = NoImage THEN Raised("ValueError")
    ELSE LET results == model_call(image) IN
    IF results.raises THEN Raised("Exception")
    ELSE LET boxes == Flatten([k \in 1..Len(results.results) |->
                                 IF results.results[k].boxes_is_none THEN <<>>
                                 ELSE results.results[k].boxes])
             detected_objects ==
                 [i \in 1..Len(boxes) |->
                     [class_name |-> self.model.names[boxes[i].cls],
                      confidence |-> boxes[i].conf,
                      bbox       |-> xyxy(boxes[i], image)]]
             has_product      == YOLOService_has_product(self, boxes)
             blur_score       == calculate_blur_score(image)
             brightness_score == calculate_brightness_score(image)
             quality_score    ==
                 YOLOService_quality_score(has_product, blur_score, brightness_score)
         IN  Returned(FrameAnalysisResponse(frame_index, timestamp, has_product,
                 quality_score, brightness_score, blur_score, detected_objects))

\* a variant of YOLOService.analyze_frame whose except branch re-raises
YOLOService_analyze_frame_reraise(self, frame_path, frame_index, timestamp) ==
    YOLOService_analyze_frame_try(self, frame_path, frame_index, timestamp)

\* a variant whose except branch scores the frame it could not analyze with the
\* neutral defaults of the two metric functions
YOLOService_analyze_frame_neutral(self, frame_path, frame_index, timestamp) ==
    LET attempt == YOLOService_analyze_frame_try(self, frame_path, frame_index, timestamp)
    IN  IF attempt.raised
        THEN Returned(FrameAnalysisResponse(frame_index, timestamp, FALSE, 0,
                 calculate_brightness_score(NoImage), calculate_blur_score(NoImage), <<>>))
        ELSE attempt

\* YOLOService.analyze_frame: the try block, and the except branch at lines 165-176
YOLOService_analyze_frame(self, frame_path, frame_index, timestamp) ==
    LET attempt == YOLOService_analyze_frame_try(self, frame_path, frame_index, timestamp)
    IN  IF attempt.raised THEN Returned(FailedResponse(frame_index, timestamp))
        ELSE attempt

(***************************************************************************)
(* FrameAnalyzer (yolo_analyzer.py)                                        *)
(***************************************************************************)
FrameAnalyzer_product_classes ==
    {"person", "bicycle", "car", "motorcycle", "airplane", "bus", "train", "truck", "boat",
     "bottle", "wine glass", "cup", "fork", "knife", "spoon", "bowl", "banana", "apple",
     "sandwich", "orange", "broccoli", "carrot", "hot dog", "pizza", "donut", "cake",
     "chair", "couch", "potted plant", "bed", "dining table", "toilet", "tv", "laptop",
     "mouse", "remote", "keyboard", "cell phone", "microwave", "oven", "toaster", "sink",
     "refrigerator", "book", "clock", "vase", "scissors", "teddy bear", "hair drier",
     "toothbrush", "handbag", "tie", "suitcase", "frisbee", "skis", "snowboard",
     "sports ball", "kite", "baseball bat", "baseball glove", "skateboard", "surfboard",
     "tennis racket", "backpack", "umbrella"}

\* FrameAnalyzer.__init__ when the model loads
FrameAnalyzer(model_path, confidence_threshold, iou_threshold) ==
    [kind                 |-> "FrameAnalyzer",
     model                |-> [names |-> model_names],
     confidence_threshold |-> confidence_threshold,
     iou_threshold        |-> iou_threshold,
     product_classes      |-> FrameAnalyzer_product_classes]

\* the loop at lines 65-87: has_product is set by any box whose label is a product class
FrameAnalyzer_has_product(self, boxes) ==
    \E i \in 1..Len(boxes) : self.model.names[boxes[i].cls] \in self.product_classes

\* the try block of FrameAnalyzer.analyze_frame, lines 51-102
FrameAnalyzer_analyze_frame_try(self, image_path) ==
    LET image == imread(image_path) IN
    IF image = NoImage THEN Raised("ValueError")
    ELSE LET results == model_call(image) IN
    IF results.raises THEN Raised("Exception")
    ELSE LET boxes ==
                 IF Len(results.results) > 0 /\ ~results.results[1].boxes_is_none
                 THEN results.results[1].boxes
                 ELSE <<>>
             detected_objects ==
                 [i \in 1..Len(boxes) |->
                     [class_name |-> self.model.names[boxes[i].cls],
                      confidence |-> boxes[i].conf,
                      bbox |-> [x      |-> boxes[i].xyxyn[1],
                                y      |-> boxes[i].xyxyn[2],
                                width  |-> boxes[i].xyxyn[3] - boxes[i].xyxyn[1],
                                height |-> boxes[i].xyxyn[4] - boxes[i].xyxyn[2]]]]
             has_product       == FrameAnalyzer_has_product(self, boxes)
             quality_metrics   == FrameAnalyzer_calculate_quality_metrics(image)
             composition_score == FrameAnalyzer_calculate_composition_score(detected_objects)
         IN  Returned([detected_objects  |-> detected_objects,
                       has_product       |-> has_product,
                       quality_score     |-> quality_metrics.overall_quality,
                       blur_score        |-> quality_metrics.blur_score,
                       brightness_score  |-> quality_metrics.brightness_score,
                       composition_score |-> composition_score])

\* FrameAnalyzer.analyze_frame: every exception leaves as a RuntimeError, lines 104-105
FrameAnalyzer_analyze_frame(self, image_path) ==
    LET attempt == FrameAnalyzer_analyze_frame_try(self, image_path)
    IN  IF attempt.raised THEN Raised("RuntimeError") ELSE attempt

\* a variant of the dictionary with blur_score 0.0
error_result_zero_blur ==
    [error             |-> "RuntimeError",
     detected_objects  |-> <<>>,
     has_product       |-> FALSE,
     quality_score     |-> 0,
     blur_score        |-> 0,
     brightness_score  |-> 0,
     composition_score |-> 0]

\* the dictionary printed by main when anything raised, lines 214-222
error_result ==
    [error             |-> "RuntimeError",
     detected_objects  |-> <<>>,
     has_product       |-> FALSE,
     quality_score     |-> 0,
     blur_score        |-> Scale,
     brightness_score  |-> 0,
     composition_score |-> 0]

(***************************************************************************)
(* Inputs.                                                                 *)
(***************************************************************************)
Black == <<0, 0, 0>>
Navy  == <<100, 10, 10>>                          \* grey level 20
White == <<255, 255, 255>>
Grey(v) == <<v, v, v>>

Palette == {Black, Navy, Grey(215), White}

\* confidences and normalized coordinates are in units of 1 / Scale
BoxSet ==
    {Box(39, 10000, 4000, 4000, 6000, 6000),      \* bottle, centred, area 0.04
     Box(80,  9000, 1000, 1000, 9000, 9000),      \* shoe, area 0.64
     Box(81,  5000,    0,    0, 5000, 5000)}      \* Bottle, a corner, area 0.25

Scenes ==
    {Raises, Returns(<<>>), Returns(<<NoBoxes>>)}
        \cup {Returns(<<Boxes(bs)>>) : bs \in SeqsUpTo(BoxSet, MaxDetections)}

\* one row of GridW pixels
Grids == [1..1 -> [1..GridW -> Palette]]

Contents == {Missing, Corrupt} \cup {Frame(Image(px, sc)) : px \in Grids, sc \in Scenes}

Uniform(c) == <<<<c, c>>, <<c, c>>>>
Checker(a, b) == <<<<a, b>>, <<b, a>>>>

\* the frames of the service's working directory
Catalogue ==
    [missing |-> Missing,
     corrupt |-> Corrupt,
     crash   |-> Frame(Image(Checker(Black, White), Raises)),
     black   |-> Frame(Image(Uniform(Black), Returns(<<NoBoxes>>))),
     checker |-> Frame(Image(Checker(Black, White),
                     Returns(<<Boxes(<<Box(39, 10000, 4000, 4000, 6000, 6000)>>)>>))),
     soft    |-> Frame(Image(Checker(Grey(64), Grey(192)),
                     Returns(<<Boxes(<<Box(39, 10000, 4000, 4000, 6000, 6000)>>)>>))),
     faint   |-> Frame(Image(Checker(Black, White),
                     Returns(<<Boxes(<<Box(39, 7000, 1000, 1000, 3000, 3000)>>)>>))),
     shoe    |-> Frame(Image(Uniform(Grey(128)),
                     Returns(<<Boxes(<<Box(16, 6000, 0, 0, 5000, 5000),
                                       Box(80, 9000, 1000, 1000, 9000, 9000)>>)>>)))]

FrameIndices == 0..MaxFrameIndex
Timestamps == {0, (3 * Scale) \div 2}

FrameAnalysisRequest(frame_path, frame_index, timestamp) ==
    [frame_path |-> frame_path, frame_index |-> frame_index, timestamp |-> timestamp]

Requests ==
    {FrameAnalysisRequest(p, i, t) : p \in DOMAIN files, i \in FrameIndices, t \in Timestamps}

\* the requests batches are made of: failing and good frames, indices out of order
BatchRequests ==
    {FrameAnalysisRequest("crash", 4, 2 * Scale),
     FrameAnalysisRequest("black", 7, 0),
     FrameAnalysisRequest("checker", 2, 3 * Scale)}

\* os.getenv(name, default) over the environments the service is started in
Unset == "<unset>"
Envs ==
    {[YOLO_MODEL_PATH |-> Unset,       YOLO_CONFIDENCE_THRESHOLD |-> Unset],
     [YOLO_MODEL_PATH |-> "custom.pt", YOLO_CONFIDENCE_THRESHOLD |-> "0.25"],
     [YOLO_MODEL_PATH |-> Unset,       YOLO_CONFIDENCE_THRESHOLD |-> "high"]}

getenv(value, default) == IF value = Unset THEN default ELSE value

\* float(s): the strings that parse, with their values
FloatLiterals == ("0.5" :> Scale \div 2) @@ ("0.25" :> Scale \div 4)
float_parses(s) == s \in DOMAIN FloatLiterals
float(s) == FloatLiterals[s]

Argvs ==
    {<<"yolo_analyzer.py", p, "yolov8n.pt", "0.5", "0.5">> : p \in DOMAIN files}
        \cup {<<"yolo_analyzer.py", "checker", "yolov8n.pt", "0.5">>,
              <<"yolo_analyzer.py", "checker", "yolov8n.pt", "high", "0.5">>}

(***************************************************************************)
(* State.  last is the response to the last request served (or the output  *)
(* of the last run of the command-line analyzer).                          *)
(***************************************************************************)
NoOp == [op |-> "none"]

Init ==
    /\ files = Catalogue
    /\ startup = "pending"
    /\ yolo_service = NoService
    /\ last = NoOp

\* a variant of startup_event that publishes the service before its model has loaded
startup_event_publish_early(env, load_ok) ==
    /\ startup = "pending"
    /\ LET model_path == getenv(env.YOLO_MODEL_PATH, "yolov8n.pt")
           threshold  == getenv(env.YOLO_CONFIDENCE_THRESHOLD, "0.5")
       IN  IF float_parses(threshold)
           THEN /\ yolo_service' = YOLOService(model_path, float(threshold))
                /\ startup' = IF load_ok THEN "ready" ELSE "failed"
           ELSE /\ yolo_service' = yolo_service
                /\ startup' = "failed"
    /\ UNCHANGED <<files, last>>

\* startup_event, lines 182-188: the constructor raises when the threshold does not
\* parse or the model does not load, and yolo_service is then never assigned
startup_event(env, load_ok) ==
    /\ startup = "pending"
    /\ LET model_path == getenv(env.YOLO_MODEL_PATH, "yolov8n.pt")
           threshold  == getenv(env.YOLO_CONFIDENCE_THRESHOLD, "0.5")
       IN  IF float_parses(threshold) /\ load_ok
           THEN /\ yolo_service' = YOLOService(model_path, float(threshold))
                /\ startup' = "ready"
           ELSE /\ yolo_service' = yolo_service
                /\ startup' = "failed"
    /\ UNCHANGED <<files, last>>

\* GET /health, lines 190-193
health_check ==
    /\ last' = [op |-> "health", status |-> 200,
                body |-> [status |-> "healthy", model_loaded |-> yolo_service # NoService]]
    /\ UNCHANGED <<files, startup, yolo_service>>

NotInitialized == [detail |-> "YOLO service not initialized"]

\* POST /analyze, lines 195-210
analyze_frame_response(request) ==
    IF yolo_service = NoService THEN [status |-> 503, body |-> NotInitialized]
    ELSE LET result == YOLOService_analyze_frame(yolo_service, request.frame_path,
                           request.frame_index, request.timestamp)
         IN  IF result.raised
             THEN [status |-> 500, body |-> [detail |-> "Analysis failed"]]
             ELSE [status |-> 200, body |-> result.value]

\* a variant of POST /analyze that removes the frame file once it has answered
analyze_frame_consuming(request) ==
    /\ LET response == analyze_frame_response(request)
       IN  last' = [op |-> "analyze", request |-> request,
                    status |-> response.status, body |-> response.body]
    /\ files' = IF yolo_service # NoService /\ request.frame_path \in DOMAIN files
                THEN [files EXCEPT ![request.frame_path] = Missing]
                ELSE files
    /\ UNCHANGED <<startup, yolo_service>>

analyze_frame(request) ==
    /\ LET response == analyze_frame_response(request)
       IN  last' = [op |-> "analyze", request |-> request,
                    status |-> response.status, body |-> response.body]
    /\ UNCHANGED <<files, startup, yolo_service>>

RECURSIVE analyze_batch_loop_prepend(_, _)
\* a variant of the loop that inserts each result at the front of the list
analyze_batch_loop_prepend(self, requests) ==
    IF requests = <<>> THEN <<>>
    ELSE LET n       == Len(requests)
             request == requests[n]
             results == analyze_batch_loop_prepend(self, SubSeq(requests, 1, n - 1))
             result  == YOLOService_analyze_frame(self, request.frame_path,
                            request.frame_index, request.timestamp)
         IN  <<result.value>> \o results

RECURSIVE analyze_batch_loop_break(_, _)
\* a variant of the loop that stops at the first frame whose analysis failed
analyze_batch_loop_break(self, requests) ==
    IF requests = <<>> THEN <<>>
    ELSE LET n       == Len(requests)
             request == requests[n]
             results == analyze_batch_loop_break(self, SubSeq(requests, 1, n - 1))
             attempt == YOLOService_analyze_frame_try(self, request.frame_path,
                            request.frame_index, request.timestamp)
             stopped == \E j \in 1..(n - 1) :
                            YOLOService_analyze_frame_try(self, requests[j].frame_path,
                                requests[j].frame_index, requests[j].timestamp).raised
         IN  IF stopped THEN results
             ELSE IF attempt.raised
                  THEN Append(results,
                           FailedResponse(request.frame_index, request.timestamp))
                  ELSE Append(results, attempt.value)

RECURSIVE analyze_batch_loop(_, _)
\* the loop of analyze_batch, lines 218-238: results after the given requests
analyze_batch_loop(self, requests) ==
    IF requests = <<>> THEN <<>>
    ELSE LET n       == Len(requests)
             request == requests[n]
             results == analyze_batch_loop(self, SubSeq(requests, 1, n - 1))
             result  == YOLOService_analyze_frame(self, request.frame_path,
                            request.frame_index, request.timestamp)
         IN  IF result.raised
             THEN Append(results, FailedResponse(request.frame_index, request.timestamp))
             ELSE Append(results, result.value)

\* POST /analyze_batch, lines 212-240
analyze_batch_response(requests) ==
    IF yolo_service = NoService THEN [status |-> 503, body |-> NotInitialized]
    ELSE [status |-> 200, body |-> analyze_batch_loop(yolo_service, requests)]

\* a variant of POST /analyze_batch that lowers the service's confidence threshold
\* when a batch holds a frame it could not analyze
analyze_batch_retuning(requests) ==
    /\ LET response == analyze_batch_response(requests)
       IN  last' = [op |-> "analyze_batch", requests |-> requests,
                    status |-> response.status, body |-> response.body]
    /\ yolo_service' =
          IF yolo_service # NoService
               /\ \E i \in 1..Len(requests) :
                     YOLOService_analyze_frame_try(yolo_service, requests[i].frame_path,
                         requests[i].frame_index, requests[i].timestamp).raised
          THEN [yolo_service EXCEPT !.confidence_threshold = @ \div 2]
          ELSE yolo_service
    /\ UNCHANGED <<files, startup>>

analyze_batch(requests) ==
    /\ LET response == analyze_batch_response(requests)
       IN  last' = [op |-> "analyze_batch", requests |-> requests,
                    status |-> response.status, body |-> response.body]
    /\ UNCHANGED <<files, startup, yolo_service>>

\* main of yolo_analyzer.py, lines 195-224: what it prints and its exit code
main_output(argv, model_ok) ==
    IF Len(argv) # 5 THEN [printed |-> "usage", exit_code |-> 1, stdout |-> [usage |-> TRUE]]
    ELSE IF ~float_parses(argv[4]) \/ ~float_parses(argv[5])
    THEN [printed |-> "nothing", exit_code |-> 1, stdout |-> [uncaught |-> "ValueError"]]
    ELSE IF ~model_ok
    THEN [printed |-> "error_result", exit_code |-> 1, stdout |-> error_result]
    ELSE LET analyzer == FrameAnalyzer(argv[3], float(argv[4]), float(argv[5]))
             result   == FrameAnalyzer_analyze_frame(analyzer, argv[2])
         IN  IF result.raised
             THEN [printed |-> "error_result", exit_code |-> 1, stdout |-> error_result]
             ELSE [printed |-> "result", exit_code |-> 0, stdout |-> result.value]

main(argv, model_ok) ==
    /\ LET output == main_output(argv, model_ok)
       IN  last' = [op |-> "main", argv |-> argv, model_ok |-> model_ok,
                    printed |-> output.printed, exit_code |-> output.exit_code,
                    stdout |-> output.stdout]
    /\ UNCHANGED <<files, startup, yolo_service>>

Next ==
    \/ \E env \in Envs, load_ok \in BOOLEAN : startup_event(env, load_ok)
    \/ health_check
    \/ \E request \in Requests : analyze_frame(request)
    \/ \E requests \in SeqsUpTo(BatchRequests, MaxBatch) : analyze_batch(requests)
    \/ \E argv \in Argvs, model_ok \in BOOLEAN : main(argv, model_ok)

Spec == Init /\ [][Next]_vars

(***************************************************************************)
(* Scoring of one frame by both analyzers, for every frame content: the    *)
(* service has started with its defaults and the frame is analyzed by the  *)
(* service and by the command-line analyzer.                               *)
(***************************************************************************)
InitScore ==
    /\ files \in [{"frame"} -> Contents]
    /\ startup = "ready"
    /\ yolo_service = YOLOService("yolov8n.pt", Scale \div 2)
    /\ last = NoOp

NextScore ==
    \/ analyze_frame(FrameAnalysisRequest("frame", 0, 0))
    \/ main(<<"yolo_analyzer.py", "frame", "yolov8n.pt", "0.5", "0.5">>, TRUE)

SpecScore == InitScore /\ [][NextScore]_vars

(***************************************************************************)
(* Composition of detections the detector does not validate: confidences   *)
(* outside [0, 1], boxes that leave the image, boxes with x2 < x1.  One     *)
(* frame, every list of such boxes, analyzed by both analyzers.            *)
(***************************************************************************)
WildBoxSet ==
    {Box(39, 10000,  4000,  4000,  6000,  6000),  \* centred, area 0.04, confidence 1.0
     Box(39, 12000,  2500,  2500,  7500,  7500),  \* confidence 1.2
     Box(39, -5000,  4000,  4000,  6000,  6000),  \* confidence -0.5
     Box(16,  9000,  9000,  1000,  1000,  9000),  \* width -0.8: area -0.64
     Box(80,  7000, -5000, -5000, 15000, 15000),  \* area 4.0
     Box(81,  8000,     0,     0,  5000,  5000),  \* confidence exactly 0.8
     Box(16,  8500,     0,     0,  2000,  2000)}  \* a small corner box, confidence 0.85

InitComposition ==
    /\ files \in [{"frame"} ->
           {Frame(Image(Checker(Grey(64), Grey(192)), Returns(<<Boxes(bs)>>))) :
               bs \in SeqsUpTo(WildBoxSet, MaxDetections)}]
    /\ startup = "ready"
    /\ yolo_service = YOLOService("yolov8n.pt", Scale \div 2)
    /\ last = NoOp

SpecComposition == InitComposition /\ [][NextScore]_vars

(***************************************************************************)
(* Frames of one constant intensity: every grey level, every size up to    *)
(* GridH x GridW, nothing detected, analyzed by both analyzers.            *)
(***************************************************************************)
MaxGrey == 255

UniformImage(h, w, v) == Image([i \in 1..h |-> [j \in 1..w |-> Grey(v)]], Returns(<<>>))

InitUniform ==
    /\ files \in [{"frame"} ->
           {Frame(UniformImage(h, w, v)) : h \in 1..GridH, w \in 1..GridW, v \in 0..MaxGrey}]
    /\ startup = "ready"
    /\ yolo_service = YOLOService("yolov8n.pt", Scale \div 2)
    /\ last = NoOp

SpecUniform == InitUniform /\ [][NextScore]_vars

(***************************************************************************)
(* Two frames of the same pixels for which the detector reports different  *)
(* detections, analyzed by the service.                                    *)
(***************************************************************************)
PairGrids == {Uniform(Black), Checker(Black, White), Checker(Grey(64), Grey(192))}

DetectionScenes ==
    {Returns(<<>>), Returns(<<NoBoxes>>)}
        \cup {Returns(<<Boxes(bs)>>) : bs \in SeqsUpTo(BoxSet, MaxDetections)}

InitPair ==
    /\ files \in {[a |-> Frame(Image(px, sa)), b |-> Frame(Image(px, sb))] :
                     px \in PairGrids, sa \in DetectionScenes, sb \in DetectionScenes}
    /\ startup = "ready"
    /\ yolo_service = YOLOService("yolov8n.pt", Scale \div 2)
    /\ last = NoOp

NextPair == \E path \in {"a", "b"} : analyze_frame(FrameAnalysisRequest(path, 0, 0))

SpecPair == InitPair /\ [][NextPair]_vars

(***************************************************************************)
(* One frame of every content, analyzed by the service alone and in a      *)
(* batch that asks for it twice.                                           *)
(***************************************************************************)
NextQuality ==
    \/ analyze_frame(FrameAnalysisRequest("frame", 0, 0))
    \/ analyze_batch(<<FrameAnalysisRequest("frame", 0, 0),
                       FrameAnalysisRequest("frame", 1, (3 * Scale) \div 2)>>)

SpecQuality == InitScore /\ [][NextQuality]_vars

(***************************************************************************)
(* The AI workers (caption-parser, auto-tagger, thumbnail-generator        *)
(* main.py).  The three lambda_handler functions are the same loop around  *)
(* a different computation.  A record carries its body and what the        *)
(* environment does to it: compute_ok says whether the computation and     *)
(* the SNS publish after it return; an exception of either leaves the      *)
(* inner try block through the same branch.  The body is JSON text or      *)
(* not; JSON text is an object with a set of fields.                       *)
(***************************************************************************)
Workers == {"caption-parser", "auto-tagger", "thumbnail-generator"}

\* the 'type' of the message publish_results sends
notification_type(worker) ==
    CASE worker = "caption-parser"      -> "caption_analysis_complete"
      [] worker = "auto-tagger"         -> "auto_tagging_complete"
      [] worker = "thumbnail-generator" -> "thumbnail_generation_complete"

\* the fields without default of TikTokVideoData / TikTokContentData
required_fields(worker) ==
    IF worker = "thumbnail-generator"
    THEN {"video_id", "video_url", "processing_job_id"}
    ELSE {"video_id", "video_url", "caption", "processing_job_id"}

NotJson(video_id) == [parses |-> FALSE, fields |-> {}, video_id |-> video_id]
Json(fields, video_id) == [parses |-> TRUE, fields |-> fields, video_id |-> video_id]

\* json.loads(record['body'])
json_loads(body) == IF body.parses THEN Returned(body) ELSE Raised("JSONDecodeError")

\* TikTokVideoData(**message_body) / TikTokContentData(**message_body)
validate(worker, message_body) ==
    IF required_fields(worker) \subseteq message_body.fields
    THEN Returned(message_body)
    ELSE Raised("ValidationError")

\* the body of the inner try block: parse, validate, compute, publish
process_record(worker, record) ==
    LET message_body == json_loads(record.body) IN
    IF message_body.raised THEN message_body
    ELSE LET video_data == validate(worker, message_body.value) IN
    IF video_data.raised THEN video_data
    ELSE IF ~record.compute_ok THEN Raised("ProcessingError")
    ELSE Returned([type     |-> notification_type(worker),
                   video_id |-> video_data.value.video_id])

RECURSIVE lambda_handler_loop_resuming(_, _, _)
\* a variant of the loop that goes on with the next record after any failure
lambda_handler_loop_resuming(worker, records, published) ==
    IF records = <<>> THEN [error |-> "none", published |-> published]
    ELSE LET attempt == process_record(worker, Head(records))
         IN  IF ~attempt.raised
             THEN lambda_handler_loop_resuming(worker, Tail(records),
                      Append(published, attempt.value))
             ELSE IF attempt.value.error = "ValidationError"
             THEN lambda_handler_loop_resuming(worker, Tail(records), published)
             ELSE [error     |-> attempt.value.error,
                   published |-> lambda_handler_loop_resuming(worker, Tail(records),
                                     published).published]

RECURSIVE lambda_handler_loop(_, _, _)
\* the for loop of lambda_handler: the messages published so far, and the error
\* that left the loop, if any
lambda_handler_loop(worker, records, published) ==
    IF records = <<>> THEN [error |-> "none", published |-> published]
    ELSE LET attempt == process_record(worker, Head(records))
         IN  IF ~attempt.raised
             THEN lambda_handler_loop(worker, Tail(records),
                      Append(published, attempt.value))
             ELSE IF attempt.value.error = "ValidationError"
             THEN lambda_handler_loop(worker, Tail(records), published)   \* continue
             ELSE [error |-> attempt.value.error, published |-> published] \* raise

\* lambda_handler: the outer try block returns 200 after the loop, and the outer
\* except branch returns 500 for every exception that left the loop
lambda_handler_outcome(worker, event) ==
    LET loop == lambda_handler_loop(worker, event.Records, <<>>)
    IN  [raised    |-> FALSE,
         published |-> loop.published,
         response  |-> IF loop.error = "none"
                       THEN [statusCode |-> 200,
                             body |-> [message |-> "Processing completed successfully"]]
                       ELSE [statusCode |-> 500, body |-> [error |-> loop.error]]]

lambda_handler(worker, event) ==
    /\ LET outcome == lambda_handler_outcome(worker, event)
       IN  last' = [op |-> "lambda_handler", worker |-> worker, event |-> event,
                    raised |-> outcome.raised, published |-> outcome.published,
                    response |-> outcome.response]
    /\ UNCHANGED <<files, startup, yolo_service>>

\* what a record can be: the fields of its body, whether the body is JSON, and
\* whether computing and publishing succeed
RecordKinds ==
    {<<{"video_id", "video_url", "caption", "processing_job_id"}, TRUE, TRUE>>,
     <<{"video_id", "video_url", "caption", "processing_job_id"}, TRUE, FALSE>>,
     <<{"video_id", "caption"}, TRUE, TRUE>>,
     <<{}, FALSE, TRUE>>}

\* the events: record i carries video_id i
Events ==
    {[Records |-> [i \in 1..Len(kinds) |->
                      [body       |-> IF kinds[i][2] THEN Json(kinds[i][1], i) ELSE NotJson(i),
                       compute_ok |-> kinds[i][3]]]] :
        kinds \in SeqsUpTo(RecordKinds, MaxRecords)}

(***************************************************************************)
(* ThumbnailGenerator.generate_thumbnails.  A string put together from     *)
(* parts is the tuple of its parts; the empty string is the empty tuple.   *)
(***************************************************************************)
\* ProcessingConfig.__post_init__: the sizes when none are given
default_thumbnail_sizes == <<<<400, 400>>, <<800, 600>>, <<600, 800>>, <<1200, 630>>>>

NoSizes == [given |-> FALSE, sizes |-> <<>>]
Sizes(sizes) == [given |-> TRUE, sizes |-> sizes]

ThumbnailProcessingConfig(thumbnail_sizes) ==
    [s3_bucket       |-> "bucket",
     thumbnail_sizes |-> IF thumbnail_sizes.given THEN thumbnail_sizes.sizes
                         ELSE default_thumbnail_sizes]

\* f"{size[0]}x{size[1]}"
size_label(size) == <<size[1], "x", size[2]>>

\* the URL _upload_to_s3 returns
thumbnail_url_of(self, video_id, size) ==
    <<"https://", self.s3_bucket, ".s3.amazonaws.com/", "thumbnails/", video_id, "/">>
        \o size_label(size) \o <<".jpg">>

\* generate_thumbnails, lines 94-127: the upload of thumbnail number s3_fail_at
\* raises (0: none does), and the exception leaves generate_thumbnails
ThumbnailGenerator_generate_thumbnails(self, video_data, s3_fail_at) ==
    LET sizes == self.thumbnail_sizes
    IN  IF s3_fail_at \in 1..Len(sizes) THEN Raised("S3Error")
        ELSE LET thumbnails ==
                     [i \in 1..Len(sizes) |->
                         [size |-> size_label(sizes[i]),
                          url  |-> thumbnail_url_of(self, video_data.video_id, sizes[i])]]
                 primary_thumbnail == IF Len(thumbnails) > 0 THEN thumbnails[1].url ELSE <<>>
             IN  Returned([video_id              |-> video_data.video_id,
                           processing_job_id     |-> video_data.processing_job_id,
                           thumbnails            |-> thumbnails,
                           primary_thumbnail_url |-> primary_thumbnail,
                           confidence_score      |-> (9 * Scale) \div 10])

generate_thumbnails(thumbnail_sizes, s3_fail_at) ==
    /\ LET config     == ThumbnailProcessingConfig(thumbnail_sizes)
           video_data == [video_id |-> "test_video_123", processing_job_id |-> "job_123"]
           result     == ThumbnailGenerator_generate_thumbnails(config, video_data, s3_fail_at)
       IN  last' = [op |-> "generate_thumbnails", config |-> config,
                    raised |-> result.raised, result |-> result.value]
    /\ UNCHANGED <<files, startup, yolo_service>>

SizeSet == {<<400, 400>>, <<800, 600>>, <<600, 800>>, <<1200, 630>>}

ThumbnailSizes == {NoSizes} \cup {Sizes(sizes) : sizes \in SeqsUpTo(SizeSet, MaxSizes)}

(***************************************************************************)
(* AutoTagger: tags of a caption, combined with the AI and trending tags.  *)
(* An entry of a tag list is a dictionary or a plain string.               *)
(***************************************************************************)
\* str.lower on the words and tags of the model
Lower(t) ==
    CASE t = "Fashion" -> "fashion"
      [] t = "Dress"   -> "dress"
      [] t = "FYP"     -> "fyp"
      [] OTHER         -> t

\* str.strip('.,!?#@') on the words of the model
Strip(word) ==
    CASE word = "#fashion" -> "fashion"
      [] OTHER             -> word

TagData(tag, confidence, category, source) ==
    [tag |-> tag, confidence |-> confidence, category |-> category, source |-> source]

Str(s) == [str |-> s]
isinstance_str(tag_data) == "str" \in DOMAIN tag_data

AutoTaggerConfig(min_confidence, max_tags) ==
    [min_confidence |-> min_confidence, max_tags |-> max_tags]

common_product_words ==
    {"dress", "shirt", "shoes", "bag", "jewelry", "makeup",
     "skincare", "fashion", "style", "outfit", "accessories"}

RECURSIVE AutoTagger_extract_caption_tags(_)
\* _extract_caption_tags over the words of the caption (caption.split())
AutoTagger_extract_caption_tags(words) ==
    IF words = <<>> THEN <<>>
    ELSE LET n          == Len(words)
             tags       == AutoTagger_extract_caption_tags(SubSeq(words, 1, n - 1))
             clean_word == Strip(Lower(words[n]))
         IN  IF clean_word \in common_product_words
             THEN Append(tags, TagData(clean_word, (8 * Scale) \div 10, "product", "caption"))
             ELSE tags

AutoTagger_generate_ai_tags ==
    <<TagData("trending", (7 * Scale) \div 10, "trend", "ai"),
      TagData("viral", (6 * Scale) \div 10, "engagement", "ai")>>

AutoTagger_get_trending_tags ==
    <<Str("viral"), Str("trending"), Str("fyp"), Str("fashion"), Str("style")>>

\* the dictionary a plain string is replaced by, lines 216-222
as_tag_data(tag_data) ==
    IF isinstance_str(tag_data)
    THEN TagData(tag_data.str, Scale \div 2, "general", "trending")
    ELSE tag_data

RECURSIVE AutoTagger_combine_loop_seen_always(_, _, _, _)
\* a variant of the loops that remembers a tag also when its confidence is too low
AutoTagger_combine_loop_seen_always(self, items, all_tags, seen_tags) ==
    IF items = <<>> THEN all_tags
    ELSE LET tag_data == as_tag_data(Head(items))
             tag      == Lower(tag_data.tag)
         IN  IF tag \notin seen_tags /\ tag_data.confidence >= self.min_confidence
             THEN AutoTagger_combine_loop_seen_always(self, Tail(items),
                      Append(all_tags, tag_data), seen_tags \cup {tag})
             ELSE AutoTagger_combine_loop_seen_always(self, Tail(items),
                      all_tags, seen_tags \cup {tag})

RECURSIVE AutoTagger_combine_loop(_, _, _, _)
\* the two loops at lines 214-227 over the entries of all the lists, in order
AutoTagger_combine_loop(self, items, all_tags, seen_tags) ==
    IF items = <<>> THEN all_tags
    ELSE LET tag_data == as_tag_data(Head(items))
             tag      == Lower(tag_data.tag)
         IN  IF tag \notin seen_tags /\ tag_data.confidence >= self.min_confidence
             THEN AutoTagger_combine_loop(self, Tail(items),
                      Append(all_tags, tag_data), seen_tags \cup {tag})
             ELSE AutoTagger_combine_loop(self, Tail(items), all_tags, seen_tags)

RECURSIVE sorted_by_confidence(_)
\* sorted(all_tags, key=confidence, reverse=True): stable, equal keys keep their order
sorted_by_confidence(tags) ==
    IF tags = <<>> THEN <<>>
    ELSE LET n     == Len(tags)
             x     == tags[n]
             front == sorted_by_confidence(SubSeq(tags, 1, n - 1))
             k     == Cardinality({i \in 1..(n - 1) : front[i].confidence >= x.confidence})
         IN  SubSeq(front, 1, k) \o <<x>> \o SubSeq(front, k + 1, n - 1)

AutoTagger_combine_and_rank_tags(self, tag_lists) ==
    sorted_by_confidence(AutoTagger_combine_loop(self, Flatten(tag_lists), <<>>, {}))

\* all_tags[:max_tags]
slice_to(seq, stop) ==
    IF stop >= 0 THEN SubSeq(seq, 1, Min(stop, Len(seq)))
    ELSE SubSeq(seq, 1, Max(0, Len(seq) + stop))

\* generate_tags, lines 94-121: the tags it combines and the tags it returns
AutoTagger_generate_tags(self, words) ==
    LET caption_tags  == AutoTagger_extract_caption_tags(words)
        ai_tags       == AutoTagger_generate_ai_tags
        trending_tags == AutoTagger_get_trending_tags
        all_tags      == AutoTagger_combine_and_rank_tags(self,
                             <<caption_tags, ai_tags, trending_tags>>)
    IN  [sources        |-> <<caption_tags, ai_tags, trending_tags>>,
         all_tags       |-> all_tags,
         generated_tags |-> slice_to(all_tags, self.max_tags),
         trending_tags  |-> trending_tags]

combine_and_rank_tags(config, tag_lists) ==
    /\ last' = [op |-> "combine_and_rank_tags", config |-> config, sources |-> tag_lists,
                all_tags |-> AutoTagger_combine_and_rank_tags(config, tag_lists)]
    /\ UNCHANGED <<files, startup, yolo_service>>

generate_tags(config, words) ==
    /\ LET result == AutoTagger_generate_tags(config, words)
       IN  last' = [op |-> "generate_tags", config |-> config, sources |-> result.sources,
                    all_tags |-> result.all_tags, generated_tags |-> result.generated_tags]
    /\ UNCHANGED <<files, startup, yolo_service>>

\* tag lists of any source: dictionaries in mixed case around the threshold, and strings
TagDataSet ==
    {TagData("Fashion", (9 * Scale) \div 10, "product", "caption"),
     TagData("fashion", Scale \div 2, "product", "ai"),
     TagData("viral", (6 * Scale) \div 10, "engagement", "ai"),
     TagData("viral", (9 * Scale) \div 10, "engagement", "ai")}

StrSet == {Str("fashion"), Str("FYP")}

TagLists ==
    UNION {{<<dicts, strs>>, <<strs, dicts>>} :
              dicts \in SeqsUpTo(TagDataSet, MaxTags), strs \in SeqsUpTo(StrSet, 1)}

\* MIN_CONFIDENCE and MAX_TAGS: the defaults 0.6 and 20, and values that cut
TaggerConfigs ==
    {AutoTaggerConfig(min_confidence, max_tags) :
        min_confidence \in {Scale \div 2, (6 * Scale) \div 10}, max_tags \in {0, 1, 20}}

Captions == SeqsUpTo({"Dress", "#fashion", "nice"}, MaxTags)

NextHandlers == \E worker \in Workers, event \in Events : lambda_handler(worker, event)

SpecHandlers == Init /\ [][NextHandlers]_vars

NextThumbnails ==
    \E thumbnail_sizes \in ThumbnailSizes, s3_fail_at \in 0..MaxSizes :
        generate_thumbnails(thumbnail_sizes, s3_fail_at)

SpecThumbnails == Init /\ [][NextThumbnails]_vars

NextTags ==
    \/ \E config \in TaggerConfigs, tag_lists \in TagLists :
          config.max_tags = 20 /\ combine_and_rank_tags(config, tag_lists)
    \/ \E config \in TaggerConfigs, words \in Captions : generate_tags(config, words)

SpecTags == Init /\ [][NextTags]_vars

(***************************************************************************)
(* Properties.                                                             *)
(***************************************************************************)
\* the frame at path cannot be analyzed: no file, no decodable image, or the detector raises
FrameFails(path) ==
    \/ path \notin DOMAIN files
    \/ ~files[path].exists
    \/ files[path].image = NoImage
    \/ files[path].image.scene.raises

\* the degraded result for a request, written out
Degraded(request) ==
    [frame_index      |-> request.frame_index,
     timestamp        |-> request.timestamp,
     has_product      |-> FALSE,
     quality_score    |-> 0,
     brightness_score |-> 0,
     blur_score       |-> 0,
     detected_objects |-> <<>>]

BatchServed == last.op = "analyze_batch" /\ last.status = 200
FrameServed == last.op = "analyze" /\ last.status # 503

\* C1: the batch response has one result per request, in request order: result i
\* carries the frame_index and the timestamp of request i, whichever frames fail.
C1_BatchPreservesOrder ==
    BatchServed =>
        /\ Len(last.body) = Len(last.requests)
        /\ \A i \in 1..Len(last.requests) :
              /\ last.body[i].frame_index = last.requests[i].frame_index
              /\ last.body[i].timestamp = last.requests[i].timestamp

\* a served batch of three whose middle frame fails and whose indices are out of order
C1_Witness ==
    /\ BatchServed
    /\ Len(last.requests) = 3
    /\ FrameFails(last.requests[2].frame_path)
    /\ ~FrameFails(last.requests[1].frame_path)
    /\ ~FrameFails(last.requests[3].frame_path)
    /\ last.requests[1].frame_index > last.requests[3].frame_index

\* C2: a failing frame never aborts the batch: its position holds the degraded
\* result and every other position holds what POST /analyze returns for that frame.
C2_BatchIsolatesFailures ==
    BatchServed =>
        /\ Len(last.body) = Len(last.requests)
        /\ \A i \in 1..Len(last.requests) :
              IF FrameFails(last.requests[i].frame_path)
              THEN last.body[i] = Degraded(last.requests[i])
              ELSE /\ last.body[i] = analyze_frame_response(last.requests[i]).body
                   /\ last.body[i] # Degraded(last.requests[i])

\* a served batch that starts with a failing frame followed by two different good frames
C2_Witness ==
    /\ BatchServed
    /\ Len(last.requests) = 3
    /\ FrameFails(last.requests[1].frame_path)
    /\ ~FrameFails(last.requests[2].frame_path)
    /\ ~FrameFails(last.requests[3].frame_path)
    /\ last.body[2].quality_score # last.body[3].quality_score

\* C3: once the service is up, POST /analyze never fails with an error: a frame
\* that is missing, undecodable or crashes the detector gets the degraded result
\* that echoes the request's frame_index and timestamp.
C3_AnalyzeFrameNeverRaises ==
    FrameServed =>
        /\ last.status = 200
        /\ FrameFails(last.request.frame_path) => last.body = Degraded(last.request)

\* an undecodable frame answered with the degraded result for a non-zero index and timestamp
C3_Witness ==
    /\ FrameServed
    /\ last.request.frame_path = "corrupt"
    /\ last.request.frame_index = 1
    /\ last.request.timestamp > 0
    /\ last.body = Degraded(last.request)

\* C4: until startup_event has completed (also when it fails) the analysis
\* surfaces reject every request as not initialized and /health reports
\* model_loaded false; once it has completed they serve and /health reports true.
C4_ReadinessGate ==
    /\ []((yolo_service # NoService) <=> (startup = "ready"))
    /\ [][(last' # last /\ last'.op \in {"analyze", "analyze_batch"}) =>
            IF startup = "ready" THEN last'.status = 200
            ELSE last'.status = 503 /\ last'.body = NotInitialized]_vars
    /\ [][(last' # last /\ last'.op = "health") =>
            (last'.body.model_loaded <=> (startup = "ready"))]_vars

\* a batch rejected as not initialized after startup has failed
C4_Witness ==
    /\ startup = "failed"
    /\ last.op = "analyze_batch"
    /\ Len(last.requests) > 0
    /\ last.status = 503

(***************************************************************************)
(* Properties of the scores.                                               *)
(***************************************************************************)
ServiceDelivered == last.op = "analyze" /\ last.status = 200
ServiceScored == ServiceDelivered /\ ~FrameFails(last.request.frame_path)
AnalyzerDelivered == last.op = "main" /\ last.printed \in {"result", "error_result"}
AnalyzerScored == last.op = "main" /\ last.printed = "result"

AnyLabelIn(detected_objects, classes) ==
    \E i \in 1..Len(detected_objects) : detected_objects[i].class_name \in classes

\* C5: on each path has_product is true exactly when some detection of the result
\* is labelled with a member of that path's product-class set (exact match); it
\* is false for an empty list and for a list of non-vocabulary labels.
C5_HasProductIffVocabulary ==
    /\ ServiceDelivered =>
          (last.body.has_product <=>
              AnyLabelIn(last.body.detected_objects, YOLOService_product_classes))
    /\ AnalyzerDelivered =>
          (last.stdout.has_product <=>
              AnyLabelIn(last.stdout.detected_objects, FrameAnalyzer_product_classes))

\* a service result whose first detection is a product and whose last one is not
C5_Witness ==
    /\ ServiceScored
    /\ Len(last.body.detected_objects) = 2
    /\ last.body.detected_objects[1].class_name = "bottle"
    /\ last.body.detected_objects[2].class_name = "Bottle"
    /\ last.body.has_product

\* C6: the analyzer and the service share one product-class vocabulary: for the
\* same frame, hence the same detection list, both paths report the same has_product.
C6_OneVocabulary ==
    /\ ServiceScored =>
          LET argv   == <<"yolo_analyzer.py", last.request.frame_path, "yolov8n.pt", "0.5", "0.5">>
              output == main_output(argv, TRUE)
          IN  last.body.has_product = output.stdout.has_product
    /\ AnalyzerScored =>
          LET request == FrameAnalysisRequest(last.argv[2], 0, 0)
          IN  last.stdout.has_product = analyze_frame_response(request).body.has_product

\* C7: a frame the service analyzed has quality_score =
\* detection_term * 0.4 + blur_score * 0.3 + brightness_score * 0.3 over the scores
\* of the same result, with detection_term 1.0 when has_product and 0.3 otherwise.
C7_ServiceQualityFormula ==
    ServiceScored =>
        LET detection_term == IF last.body.has_product THEN Scale ELSE (3 * Scale) \div 10
        IN  last.body.quality_score =
                (detection_term * 4 + last.body.blur_score * 3
                   + last.body.brightness_score * 3) \div 10

\* a service result without product whose blur and brightness are strictly inside (0, 1)
C7_Witness ==
    /\ ServiceScored
    /\ ~last.body.has_product
    /\ 0 < last.body.blur_score /\ last.body.blur_score < Scale
    /\ 0 < last.body.brightness_score /\ last.body.brightness_score < Scale
    /\ last.body.blur_score # last.body.brightness_score

\* C8: a frame the command-line analyzer analyzed has blur_score =
\* 1 - clamp(laplacian variance / 1000) and quality_score =
\* 0.4 * (1 - blur_score) + 0.3 * brightness_score + 0.3 * contrast_score, with
\* contrast_score = min(std / 255 * 2, 1); composition_score is no term of it.
C8_AnalyzerQualityFormula ==
    AnalyzerScored =>
        LET image == files[last.argv[2]].image
        IN  /\ last.stdout.blur_score = Scale - NormalizedLaplacianVar(image)
            /\ last.stdout.quality_score =
                  ((Scale - last.stdout.blur_score) * 4 + last.stdout.brightness_score * 3
                     + contrast_score_of(image) * 3) \div 10

\* an analyzer result with blur, brightness and contrast strictly inside (0, 1)
C8_Witness ==
    /\ AnalyzerScored
    /\ 0 < last.stdout.blur_score /\ last.stdout.blur_score < Scale
    /\ 0 < last.stdout.brightness_score /\ last.stdout.brightness_score < Scale
    /\ 0 < contrast_score_of(files[last.argv[2]].image)
    /\ contrast_score_of(files[last.argv[2]].image) < Scale
    /\ last.stdout.composition_score # (3 * Scale) \div 10

\* C10: quality_score, blur_score and brightness_score of every result delivered
\* on either path, successful or degraded, lie in [0, 1].
C10_ScoresInUnitInterval ==
    /\ ServiceDelivered =>
          /\ last.body.quality_score \in 0..Scale
          /\ last.body.blur_score \in 0..Scale
          /\ last.body.brightness_score \in 0..Scale
    /\ AnalyzerDelivered =>
          /\ last.stdout.quality_score \in 0..Scale
          /\ last.stdout.blur_score \in 0..Scale
          /\ last.stdout.brightness_score \in 0..Scale

\* a service result at the top of the range: Laplacian variance above 1000 (blur_score
\* clamped to 1), brightness_score 1 and a product detected
C10_Witness ==
    /\ ServiceScored
    /\ last.body.blur_score = Scale
    /\ NormalizedLaplacianVar_unclamped(files[last.request.frame_path].image) > Scale
    /\ last.body.brightness_score = Scale
    /\ last.body.quality_score = Scale

(***************************************************************************)
(* quality_score as a function of the other scores.  A result is compared  *)
(* with the result of every other request the same service, or the same    *)
(* analyzer, answers.                                                      *)
(***************************************************************************)
ServiceAgree(a, b) ==
    /\ a.has_product = b.has_product
    /\ a.blur_score = b.blur_score
    /\ a.brightness_score = b.brightness_score

AnalyzerAgree(a, b) ==
    /\ a.blur_score = b.blur_score
    /\ a.brightness_score = b.brightness_score
    /\ a.composition_score = b.composition_score

\* C9 as claimed: on either path, successful or degraded, two results that agree
\* on blur_score, brightness_score and composition_score (and on has_product on
\* the service path) have the same quality_score.
C9_QualityDeterminedByScores ==
    /\ ServiceDelivered =>
          \A request \in Requests :
              LET other == analyze_frame_response(request).body
              IN  ServiceAgree(last.body, other) =>
                      last.body.quality_score = other.quality_score
    /\ AnalyzerDelivered =>
          \A argv \in Argvs, model_ok \in BOOLEAN :
              LET other == main_output(argv, model_ok)
              IN  (/\ other.printed \in {"result", "error_result"}
                   /\ AnalyzerAgree(last.stdout, other.stdout)) =>
                      last.stdout.quality_score = other.stdout.quality_score

\* C9 as amended: for analyzed frames quality_score is determined by has_product,
\* blur_score and brightness_score on the service path, and by blur_score,
\* brightness_score and the frame's contrast score on the analyzer path; a
\* degraded service result carries the constant 0.
C9_QualityDeterminedWhenAnalyzed ==
    /\ ServiceScored =>
          \A request \in Requests :
              LET other == analyze_frame_response(request).body
              IN  (~FrameFails(request.frame_path) /\ ServiceAgree(last.body, other)) =>
                      last.body.quality_score = other.quality_score
    /\ (ServiceDelivered /\ ~ServiceScored) => last.body.quality_score = 0
    /\ AnalyzerScored =>
          \A argv \in Argvs :
              LET other == main_output(argv, TRUE)
              IN  (/\ other.printed = "result"
                   /\ last.stdout.blur_score = other.stdout.blur_score
                   /\ last.stdout.brightness_score = other.stdout.brightness_score
                   /\ contrast_score_of(files[last.argv[2]].image)
                        = contrast_score_of(files[argv[2]].image)) =>
                      last.stdout.quality_score = other.stdout.quality_score

\* the service analyzed a frame that agrees with another frame on has_product,
\* blur_score and brightness_score though the two differ in contrast and detections
C9_Witness ==
    /\ ServiceScored
    /\ last.request.frame_path = "faint"
    /\ ServiceAgree(last.body,
           analyze_frame_response(FrameAnalysisRequest("soft", 0, 0)).body)
    /\ last.body.detected_objects #
           analyze_frame_response(FrameAnalysisRequest("soft", 0, 0)).body.detected_objects
    /\ contrast_score_of(files["faint"].image) # contrast_score_of(files["soft"].image)

(***************************************************************************)
(* The composition score.  The reference is written from the formula, one  *)
(* detection at a time.                                                    *)
(***************************************************************************)
ReferenceObjScore(d) ==
    LET cx   == d.bbox.x + d.bbox.width \div 2
        cy   == d.bbox.y + d.bbox.height \div 2
        dist == ISqrt((cx - Scale \div 2) * (cx - Scale \div 2)
                        + (cy - Scale \div 2) * (cy - Scale \div 2))
        center_score == Scale - (IF 2 * dist < Scale THEN 2 * dist ELSE Scale)
        area == (d.bbox.width * d.bbox.height) \div Scale
        size_score ==
            IF area < Scale \div 10 THEN area * 10
            ELSE IF area > (6 * Scale) \div 10
                 THEN (IF Scale - (area - (6 * Scale) \div 10) * 2 > (2 * Scale) \div 10
                       THEN Scale - (area - (6 * Scale) \div 10) * 2
                       ELSE (2 * Scale) \div 10)
                 ELSE Scale
    IN  (((center_score * 4 + size_score * 6) \div 10) * d.confidence) \div Scale

\* the largest value of a non-empty set of integers
Largest(S) == CHOOSE v \in S : \A w \in S : v >= w

\* floor is the value the maximum over the detections starts from, if any
ReferenceComposition(ds, floor) ==
    IF Len(ds) = 0 THEN (3 * Scale) \div 10
    ELSE LET m       == Largest({ReferenceObjScore(ds[i]) : i \in 1..Len(ds)} \cup floor)
             maxconf == Largest({ds[i].confidence : i \in 1..Len(ds)})
             boosted == IF maxconf > (8 * Scale) \div 10 THEN (m * 12) \div 10 ELSE m
         IN  IF boosted > Scale THEN Scale ELSE boosted

\* C11: the composition score of every analyzer result lies in [0, 1], also when
\* the detections carry confidences outside [0, 1], areas above 1 or negative widths.
C11_CompositionInUnitInterval ==
    AnalyzerDelivered =>
        /\ last.stdout.composition_score >= 0
        /\ last.stdout.composition_score <= Scale

\* a detection of confidence above 1 whose boosted score the clamp cuts to 1
C11_Witness ==
    /\ AnalyzerScored
    /\ \E i \in 1..Len(last.stdout.detected_objects) :
          /\ last.stdout.detected_objects[i].confidence > Scale
          /\ ReferenceObjScore(last.stdout.detected_objects[i]) > Scale
    /\ last.stdout.composition_score = Scale

TheImage == files["frame"].image
TheLevel == COLOR_BGR2GRAY(TheImage.px[1][1])
IsUniform(image) ==
    \A p \in Positions(image) : image.px[p[1]][p[2]] = image.px[1][1]

\* Variant A of a mean intensity level / 255
VariantA(level) ==
    LET raw == IF 5 * level < MaxGrey THEN (5 * level * Scale) \div (2 * MaxGrey)
               ELSE IF 5 * level > 4 * MaxGrey
                    THEN (5 * (MaxGrey - level) * Scale) \div MaxGrey
                    ELSE Scale
    IN  IF raw < 0 THEN 0 ELSE IF raw > Scale THEN Scale ELSE raw

\* Variant B of a mean intensity level / 255
VariantB(level) ==
    LET raw == IF 10 * level >= 3 * MaxGrey /\ 5 * level <= 4 * MaxGrey THEN Scale
               ELSE IF 10 * level < 3 * MaxGrey
                    THEN (10 * level * Scale) \div (3 * MaxGrey)
                    ELSE (5 * (MaxGrey - level) * Scale) \div MaxGrey
    IN  IF raw < 0 THEN 0 ELSE IF raw > Scale THEN Scale ELSE raw

\* the brightness scores of the frame one grey level darker, same size
DarkerImage == UniformImage(TheImage.h, TheImage.w, TheLevel - 1)

C15_UniformFrameBlurExtreme ==
    /\ (AnalyzerScored /\ IsUniform(TheImage)) =>
          /\ VarTimesN2(Laplacian(TheImage, cvtColor(TheImage))) = 0
          /\ last.stdout.blur_score = Scale
    /\ (ServiceScored /\ IsUniform(TheImage)) =>
          /\ VarTimesN2(Laplacian(TheImage, cvtColor(TheImage))) = 0
          /\ last.body.blur_score = 0

\* a white frame of at least 2 x 2 pixels analyzed by the command-line analyzer
C15_Witness ==
    /\ AnalyzerScored
    /\ IsUniform(TheImage)
    /\ TheImage.h > 1
    /\ TheImage.w > 1
    /\ TheLevel = MaxGrey
    /\ last.stdout.blur_score = Scale

C17_NotFoundReported ==
    (FrameServed /\ ~os_path_exists(last.request.frame_path)) =>
        \A request \in Requests :
            (/\ os_path_exists(request.frame_path)
             /\ request.frame_index = last.request.frame_index
             /\ request.timestamp = last.request.timestamp) =>
                analyze_frame_response(request) # [status |-> last.status, body |-> last.body]

OtherPath == IF last.request.frame_path = "a" THEN "b" ELSE "a"
OtherBody == analyze_frame_response(FrameAnalysisRequest(OtherPath, 0, 0)).body
CompositionOf(path) ==
    main_output(<<"yolo_analyzer.py", path, "yolov8n.pt", "0.5", "0.5">>, TRUE).stdout.composition_score

\* C19: the service's quality_score has no composition term: two frames of the
\* same pixels whose detections differ in boxes, confidences or number, but agree
\* on whether some label is a product class, get the same quality_score,
\* blur_score and brightness_score.
C19_ServiceQualityOmitsComposition ==
    ServiceScored =>
        ((AnyLabelIn(last.body.detected_objects, yolo_service.product_classes)
            <=> AnyLabelIn(OtherBody.detected_objects, yolo_service.product_classes)) =>
            /\ last.body.quality_score = OtherBody.quality_score
            /\ last.body.blur_score = OtherBody.blur_score
            /\ last.body.brightness_score = OtherBody.brightness_score)

\* two product frames of the same pixels, one detection against two, whose
\* composition scores differ and whose quality_score is the same
C19_Witness ==
    /\ ServiceScored
    /\ last.body.has_product
    /\ OtherBody.has_product
    /\ Len(last.body.detected_objects) = 1
    /\ Len(OtherBody.detected_objects) = 2
    /\ CompositionOf(last.request.frame_path) # CompositionOf(OtherPath)
    /\ last.body.quality_score = OtherBody.quality_score
    /\ last.body.blur_score > 0

\* C20: the service object is assigned once, by startup_event, and no request
\* replaces or changes it afterwards: its model, threshold and product classes
\* stay what the constructor made them, whatever is analyzed.
C20_ServiceConstructedOnce ==
    /\ [][yolo_service # NoService => yolo_service' = yolo_service]_vars
    /\ [][yolo_service' # yolo_service =>
            (startup = "pending" /\ startup' = "ready" /\ last' = last)]_vars
    /\ [](yolo_service # NoService =>
            /\ yolo_service.model = [names |-> model_names]
            /\ yolo_service.product_classes = YOLOService_product_classes
            /\ yolo_service.confidence_threshold \in {Scale \div 2, Scale \div 4})

\* the service configured from the environment, unchanged after a batch with a
\* frame that crashed the detector
C20_Witness ==
    /\ yolo_service = YOLOService("custom.pt", Scale \div 4)
    /\ BatchServed
    /\ Len(last.requests) > 1
    /\ \E i \in 1..Len(last.requests) : FrameFails(last.requests[i].frame_path)

(***************************************************************************)
(* Failed analyses.                                                        *)
(***************************************************************************)
\* the command-line analyzer ran with a loadable model on a frame it cannot analyze
AnalyzerFailed ==
    /\ last.op = "main"
    /\ Len(last.argv) = 5
    /\ float_parses(last.argv[4]) /\ float_parses(last.argv[5])
    /\ last.model_ok
    /\ FrameFails(last.argv[2])

\* C21 as claimed: when the image cannot be loaded or the detector fails, the
\* command-line analyzer delivers quality_score = blur_score = brightness_score =
\* composition_score = 0.0, has_product false and no detections.
C21_AnalyzerFailureAllZero ==
    AnalyzerFailed =>
        /\ last.stdout.quality_score = 0
        /\ last.stdout.blur_score = 0
        /\ last.stdout.brightness_score = 0
        /\ last.stdout.composition_score = 0
        /\ ~last.stdout.has_product
        /\ last.stdout.detected_objects = <<>>

\* C21 as amended: in that case the analyzer prints the error result and exits
\* with code 1; the result has quality_score = brightness_score =
\* composition_score = 0.0 and blur_score = 1.0, has_product false, no detections.
C21_AnalyzerFailureErrorResult ==
    AnalyzerFailed =>
        /\ last.printed = "error_result"
        /\ last.exit_code = 1
        /\ "error" \in DOMAIN last.stdout
        /\ last.stdout.quality_score = 0
        /\ last.stdout.blur_score = Scale
        /\ last.stdout.brightness_score = 0
        /\ last.stdout.composition_score = 0
        /\ ~last.stdout.has_product
        /\ last.stdout.detected_objects = <<>>

\* the analyzer ran on a frame that exists and decodes and whose detection raised
C21_Witness ==
    /\ AnalyzerFailed
    /\ os_path_exists(last.argv[2])
    /\ imread(last.argv[2]) # NoImage
    /\ last.printed = "error_result"
    /\ last.stdout.blur_score = Scale

\* C22: a frame the service analyzed has quality_score >= 0.12, so on /analyze and
\* in every position of a batch quality_score is 0.0 exactly when the frame could
\* not be analyzed, that is exactly when the result is the degraded one.
C22_ZeroQualityIffDegraded ==
    /\ ServiceDelivered =>
          /\ (last.body.quality_score = 0) <=> FrameFails(last.request.frame_path)
          /\ (last.body.quality_score = 0) <=> (last.body = Degraded(last.request))
          /\ ServiceScored => last.body.quality_score >= (12 * Scale) \div 100
    /\ BatchServed =>
          \A i \in 1..Len(last.requests) :
              /\ (last.body[i].quality_score = 0) <=> FrameFails(last.requests[i].frame_path)
              /\ (last.body[i].quality_score = 0) <=> (last.body[i] = Degraded(last.requests[i]))
              /\ last.body[i].quality_score = 0
                    \/ last.body[i].quality_score >= (12 * Scale) \div 100

\* an analyzed frame at the lowest score: no product, blur_score and brightness_score 0
C22_Witness ==
    /\ ServiceScored
    /\ ~last.body.has_product
    /\ last.body.blur_score = 0
    /\ last.body.brightness_score = 0
    /\ last.body.quality_score = (12 * Scale) \div 100


(***************************************************************************)
(* The workers' handlers.  What a record is, read off the record itself.   *)
(***************************************************************************)
HandlerDone == last.op = "lambda_handler"

RecordUnparseable(record) == ~record.body.parses
RecordSchemaInvalid(worker, record) ==
    record.body.parses /\ ~(required_fields(worker) \subseteq record.body.fields)
RecordValid(worker, record) ==
    record.body.parses /\ required_fields(worker) \subseteq record.body.fields
RecordSucceeds(worker, record) ==
    RecordValid(worker, record) /\ record.compute_ok
\* a failure that is not a ValidationError
RecordFails(worker, record) ==
    \/ RecordUnparseable(record)
    \/ RecordValid(worker, record) /\ ~record.compute_ok

FailingIndices(worker, records) == {i \in 1..Len(records) : RecordFails(worker, records[i])}
FirstFailure(worker, records) ==
    IF FailingIndices(worker, records) = {} THEN Len(records) + 1
    ELSE CHOOSE i \in FailingIndices(worker, records) :
             \A j \in FailingIndices(worker, records) : i <= j

PublishedIds == [k \in 1..Len(last.published) |-> last.published[k].video_id]

\* C23: when a record fails with a non-validation error, the exception leaves
\* lambda_handler (the invocation fails) instead of a response being returned.
C23_FailurePropagates ==
    (HandlerDone /\ FailingIndices(last.worker, last.event.Records) # {}) => last.raised

\* C24: a record with an invalid message, schema-invalid or not parseable JSON, is
\* skipped: when no record of the event fails in computing or publishing, every
\* valid record is published and the handler returns statusCode 200.
C24_InvalidRecordsSkipped ==
    (/\ HandlerDone
     /\ \A i \in 1..Len(last.event.Records) :
           \/ RecordSucceeds(last.worker, last.event.Records[i])
           \/ RecordSchemaInvalid(last.worker, last.event.Records[i])
           \/ RecordUnparseable(last.event.Records[i]))
    => /\ last.response.statusCode = 200
       /\ \A i \in 1..Len(last.event.Records) :
             RecordSucceeds(last.worker, last.event.Records[i])
                => \E k \in 1..Len(last.published) : last.published[k].video_id = i

\* C25: the notifications of an event are those of the records that validated,
\* and computed, before the first non-validation failure, once each and
\* in record order, with the worker's type; the response is 500 exactly when a
\* record failed.
C25_PublishedInOrder ==
    HandlerDone =>
       LET records == last.event.Records
           stop    == FirstFailure(last.worker, records)
       IN  /\ \A k \in 1..Len(last.published) :
                 /\ PublishedIds[k] \in 1..Len(records)
                 /\ RecordSucceeds(last.worker, records[PublishedIds[k]])
                 /\ PublishedIds[k] < stop
                 /\ last.published[k].type = notification_type(last.worker)
           /\ \A k, l \in 1..Len(last.published) : k < l => PublishedIds[k] < PublishedIds[l]
           /\ \A i \in 1..Len(records) :
                 (i < stop /\ RecordSucceeds(last.worker, records[i]))
                    => \E k \in 1..Len(last.published) : PublishedIds[k] = i
           /\ (last.response.statusCode = 500) <=> (stop <= Len(records))
           /\ (last.response.statusCode = 200) <=> (stop > Len(records))

\* a record is published, the next one fails in computing, and the valid record
\* after it is not published
C25_Witness ==
    /\ HandlerDone
    /\ Len(last.event.Records) = 3
    /\ RecordSucceeds(last.worker, last.event.Records[1])
    /\ RecordValid(last.worker, last.event.Records[2])
    /\ ~last.event.Records[2].compute_ok
    /\ RecordSucceeds(last.worker, last.event.Records[3])
    /\ PublishedIds = <<1>>
    /\ last.response.statusCode = 500

(***************************************************************************)
(* The thumbnails.                                                         *)
(***************************************************************************)
ThumbnailsDone == last.op = "generate_thumbnails" /\ ~last.raised

Area(size) == size[1] * size[2]

\* C26: one thumbnail per configured size in configuration order, and
\* primary_thumbnail_url is the URL of the largest of them (the empty string when
\* no size is configured).
C26_PrimaryIsLargest ==
    ThumbnailsDone =>
       LET sizes      == last.config.thumbnail_sizes
           thumbnails == last.result.thumbnails
       IN  /\ Len(thumbnails) = Len(sizes)
           /\ \A i \in 1..Len(sizes) : thumbnails[i].size = <<sizes[i][1], "x", sizes[i][2]>>
           /\ IF Len(sizes) = 0 THEN last.result.primary_thumbnail_url = <<>>
              ELSE \E i \in 1..Len(sizes) :
                      /\ \A j \in 1..Len(sizes) : Area(sizes[j]) <= Area(sizes[i])
                      /\ last.result.primary_thumbnail_url = thumbnails[i].url

(***************************************************************************)
(* The tags.                                                               *)
(***************************************************************************)
TagsCombined == last.op \in {"combine_and_rank_tags", "generate_tags"}

\* the entries of all the sources, a plain string as the dictionary it stands for
SourceEntries ==
    LET items == Flatten(last.sources)
    IN  {IF "str" \in DOMAIN items[i]
         THEN [tag |-> items[i].str, confidence |-> Scale \div 2,
               category |-> "general", source |-> "trending"]
         ELSE items[i] : i \in 1..Len(items)}

====
